---- MODULE Spec2Model ----
(***************************************************************************)
(* Model of the Gemini rate limiter (rate_limiter.js, kept in              *)
(* src/unnamed/part_000 lines 1-153).                                      *)
(*                                                                         *)
(* The module builds two Bottleneck limiters (limiter, priorityLimiter),   *)
(* wraps every provider call in wrapGeminiCall, and installs 'failed'      *)
(* handlers that ask Bottleneck to retry throttled jobs.  The limiters are *)
(* modelled by what the bottleneck package (v2, local datastore) does with *)
(* the options and handlers the source passes to it:                       *)
(*   - schedule() puts the job at the back of the limiter's queue and      *)
(*     drains the queue (_drainAll);                                       *)
(*   - a job is registered (admitted) while                                *)
(*     min(maxConcurrent - running, reservoir) >= 1; registering adds 1 to *)
(*     running, takes 1 from the reservoir and arms a timer that starts    *)
(*     the task at max(nextRequest, now); nextRequest moves minTime past   *)
(*     that start;                                                         *)
(*   - when the task rejects, the 'failed' handler is asked for a delay;   *)
(*     a non-null delay makes Bottleneck add 1 to job.retryCount and arm a *)
(*     timer that runs the same task again after the delay, the job        *)
(*     keeping its place among the running jobs; otherwise the job is      *)
(*     freed (running - 1, queue drained) and the promise rejected;        *)
(*   - every reservoirRefreshInterval the reservoir is set to              *)
(*     reservoirRefreshAmount and the queue is drained.                    *)
(* Time is the value of Date.now() in milliseconds, 0 at module load.      *)
(* Timers fire at their deadline; time advances from one deadline to the   *)
(* next.                                                                   *)
(***************************************************************************)
EXTENDS Integers, Sequences, FiniteSets, TLC

\* ---------------------------------------------------------------- bounds
\* Spec: every outcome of fn, both tiers, both limiters, across one refresh.
\* Number of wrapGeminiCall calls in a run, and the last instant (ms) the
\* clock may reach.
MaxJobs == 1
MaxTime == 72000
\* SpecLoad: several calls competing for one limiter before the first refresh
\* is due; fn resolves or is throttled.  Calls, throttling rejections and the
\* last instant of a run.
LoadJobs == 3
LoadThrottles == 1
LoadTime == 8000
\* SpecBurst: a burst of priority calls under the free tier whose fn resolves,
\* enough of them to empty the reservoir.  Calls, the last instant at which a
\* call arrives, and the last instant of a run.
BurstJobs == 11
BurstWindow == 0
BurstTime == 60000
\* SpecRelease: calls under the free tier whose fn resolves or fails with an
\* error that is not throttling, more of them than the normal limiter has
\* slots.  Calls and the last instant of a run.
ReleaseJobs == 3
ReleaseTime == 12000
\* SpecLive: calls made together into one limiter whose fn settles at once,
\* resolving or throttled; more calls than the smallest reservoir holds,
\* throttling rejections, and a last instant past the second refill.
LiveJobs == 11
LiveThrottles == 2
LiveTime == 120000
\* SpecReset: calls with every outcome of fn under either tier, with
\* resetStats called at any moment.  Calls and the last instant of a run.
ResetJobs == 1
ResetTime == 12000
\* SpecResetLoad: calls whose fn resolves, with resetStats called at any
\* moment.  Calls and the last instant of a run.
ResetLoadJobs == 2
ResetLoadTime == 4000
\* SpecQuota: calls made together under the free tier whose fn settles at
\* once, resolving or throttled, within the first refill interval.  Calls
\* and the last instant of a run.
QuotaJobs == 4
QuotaTime == 30000
\* SpecRender: one generateRendering invocation among calls of the
\* background workers.  Background calls and the last instant of a run.
RenderBackground == 2
RenderTime == 12000
\* SpecWorker: the interval callback of startProductWorker over a gallery
\* of unprocessed products.  Products and the last instant of a run.
WorkerProducts == 2
WorkerTime == 30000

VARIABLES
    startup,              \* the module: "loading", "failed" (its top-level
                          \* code threw) or "serving" (it was evaluated)
    GEMINI_TIER,          \* process.env.GEMINI_TIER || 'paid'
    now,                  \* Date.now()
    stats,                \* the module-level stats object
    jobs,                 \* one record per call made so far, in call order
                          \* (the closure's state and the Bottleneck job)
    queued,               \* per limiter: ids waiting in the queue, front first
    running,              \* per limiter: Bottleneck's _running
    reservoir,            \* per limiter: storeOptions.reservoir
    nextRequest,          \* per limiter: Bottleneck's _nextRequest
    lastReservoirRefresh, \* per limiter: Bottleneck's _lastReservoirRefresh
    lastStart,            \* history: per limiter, time of the latest start of fn (-1: none)
    lastFirstStart,       \* history: per limiter, time of the latest first start of a job (-1: none)
    rendering,            \* the generateRendering invocation that is followed
    product_gallery,      \* the product_gallery table: var_restrictions per product
    ticks,                \* the invocations of startProductWorker's interval callback
    nextTick              \* when the interval timer of startProductWorker fires next

\* The state of the callers of wrapGeminiCall that are followed.
callers == <<rendering, product_gallery, ticks, nextTick>>

\* The state of the rate limiter module and its histories.
rateLimiter == <<startup, GEMINI_TIER, now, stats, jobs, queued, running, reservoir,
                 nextRequest, lastReservoirRefresh, lastStart, lastFirstStart>>

vars == <<startup, GEMINI_TIER, now, stats, jobs, queued, running, reservoir,
          nextRequest, lastReservoirRefresh, lastStart, lastFirstStart,
          rendering, product_gallery, ticks, nextTick>>

Min(a, b) == IF a <= b THEN a ELSE b
Max(a, b) == IF a >= b THEN a ELSE b

\* ----------------------------------------------------------- configuration
Tiers == {"free", "paid"}

RATE_LIMITS(t) ==
    IF t = "free"
    THEN [maxConcurrent |-> 2, minTime |-> 4000, reservoir |-> 15,
          reservoirRefreshAmount |-> 15, reservoirRefreshInterval |-> 60000]
    ELSE [maxConcurrent |-> 5, minTime |-> 1000, reservoir |-> 60,
          reservoirRefreshAmount |-> 60, reservoirRefreshInterval |-> 60000]

config == RATE_LIMITS(GEMINI_TIER)

\* Floor70 that rounds up.
Floor70_RoundUp(x) == (x * 7 + 9) \div 10

\* Math.floor(x * 0.7) for the reservoirs in use (15 -> 10, 60 -> 42).
Floor70(x) == (x * 7) \div 10

Limiters == {"limiter", "priorityLimiter"}

\* Options whose priority limiter is refilled with half of its reservoir.
Options_SmallRefill(q) ==
    IF q = "limiter"
    THEN [maxConcurrent |-> config.maxConcurrent,
          minTime |-> config.minTime,
          reservoir |-> config.reservoir,
          reservoirRefreshAmount |-> config.reservoirRefreshAmount,
          reservoirRefreshInterval |-> config.reservoirRefreshInterval]
    ELSE [maxConcurrent |-> Min(config.maxConcurrent + 2, 10),
          minTime |-> Max(config.minTime - 200, 500),
          reservoir |-> Floor70(config.reservoir),
          reservoirRefreshAmount |-> Floor70(config.reservoirRefreshAmount) \div 2,
          reservoirRefreshInterval |-> config.reservoirRefreshInterval]

\* The options each Bottleneck is constructed with.
Options(q) ==
    IF q = "limiter"
    THEN [maxConcurrent |-> config.maxConcurrent,
          minTime |-> config.minTime,
          reservoir |-> config.reservoir,
          reservoirRefreshAmount |-> config.reservoirRefreshAmount,
          reservoirRefreshInterval |-> config.reservoirRefreshInterval]
    ELSE [maxConcurrent |-> Min(config.maxConcurrent + 2, 10),
          minTime |-> Max(config.minTime - 200, 500),
          reservoir |-> Floor70(config.reservoir),
          reservoirRefreshAmount |-> Floor70(config.reservoirRefreshAmount),
          reservoirRefreshInterval |-> config.reservoirRefreshInterval]

\* activeLimiter that sends every call to the normal limiter.
activeLimiter_AlwaysNormal(priority) == IF priority THEN "limiter" ELSE "limiter"

\* const activeLimiter = priority ? priorityLimiter : limiter
activeLimiter(priority) == IF priority THEN "priorityLimiter" ELSE "limiter"

\* ------------------------------------------------------------------ jobs
\* The calls made so far: job j is the j-th call.
nCalls == Len(jobs)
Called == 1..nCalls

\* What one invocation of fn can end with: a value, or a rejection with an
\* Error whose message carries a throttling marker ('429' or
\* 'RESOURCE_EXHAUSTED'), an Error whose message carries none, a value that
\* has no message property (a string, a plain object), or a value on which
\* reading .message itself throws (null, undefined).
Outcomes == {"ok", "RESOURCE_EXHAUSTED", "ECONNRESET", "noMessage", "null"}

\* A job record.  Program state: status, priority, startTime (the closure's
\* Date.now() at the call), retryCount (Bottleneck's job.retryCount), wake (the
\* deadline of the job's armed setTimeout, 0 when none is armed).
\*   status: QUEUED    in the limiter's queue
\*           RUNNING   registered, timer armed for the first execution
\*           EXECUTING fn invoked and not settled
\*           RETRYING  (Bottleneck keeps the job EXECUTING) retry timer armed
\*           DONE      freed, promise settled
\* History: attempts (invocations of fn), lastErr (what the latest attempt
\* ended with), promise/settles/delivered (what the caller's promise got),
\* counted (how often this job incremented each counter), calledBeforeReset
\* and settledBeforeReset (a resetStats came after the call, after the end),
\* deep (the call left more jobs waiting in the queue than the threshold)
\* and depthSignal (the 'queued' handler logged the queue depth for the call).
NewJob ==
    [status |-> "QUEUED", priority |-> FALSE, startTime |-> 0, retryCount |-> 0,
     wake |-> 0, attempts |-> 0, lastErr |-> "none",
     promise |-> "pending", settles |-> 0,
     delivered |-> [what |-> "none", attempt |-> 0],
     counted |-> [successful |-> 0, failed |-> 0, retried |-> 0, queueTime |-> 0],
     calledBeforeReset |-> FALSE, settledBeforeReset |-> FALSE,
     deep |-> FALSE, depthSignal |-> FALSE]

LimiterOf(j) == activeLimiter(jobs[j].priority)

\* ------------------------------------------------------------- Bottleneck
\* conditionsCheck that forgets the concurrency ceiling.
conditionsCheck_NoCeiling(q, run, res) == 1 <= res

\* conditionsCheck that forgets the reservoir.
conditionsCheck_NoReservoir(q, run, res) == 1 <= Options(q).maxConcurrent - run

\* LocalDatastore.conditionsCheck(1): 1 <= min(maxConcurrent - running, reservoir)
conditionsCheck(q, run, res) ==
    1 <= Min(Options(q).maxConcurrent - run, res)

\* register that does not move nextRequest past the start it grants.
register_NoSpacing(q, s) ==
    LET j    == Head(s.queued)
        wait == Max(s.nextRequest - now, 0)
    IN [queued      |-> Tail(s.queued),
        running     |-> s.running + 1,
        reservoir   |-> s.reservoir - 1,
        nextRequest |-> now + wait,
        jobs        |-> [s.jobs EXCEPT ![j].status = "RUNNING",
                                       ![j].wake = now + wait]]

\* LocalDatastore.__register__ followed by Bottleneck._run(index, job, wait) for
\* the job at the front of the queue.  s = [queued, running, reservoir,
\* nextRequest, jobs] of limiter q.
register(q, s) ==
    LET j    == Head(s.queued)
        wait == Max(s.nextRequest - now, 0)
    IN [queued      |-> Tail(s.queued),
        running     |-> s.running + 1,
        reservoir   |-> s.reservoir - 1,
        nextRequest |-> now + wait + Options(q).minTime,
        jobs        |-> [s.jobs EXCEPT ![j].status = "RUNNING",
                                       ![j].wake = now + wait]]

\* _drainAll: register the jobs at the front of the queue while the
\* conditions allow.
RECURSIVE drainAll(_, _)
drainAll(q, s) ==
    IF s.queued = <<>> \/ ~conditionsCheck(q, s.running, s.reservoir)
    THEN s
    ELSE drainAll(q, register(q, s))

\* The state of limiter q, with the job table js, as drainAll takes it.
LimiterState(q, js) ==
    [queued |-> queued[q], running |-> running[q], reservoir |-> reservoir[q],
     nextRequest |-> nextRequest[q], jobs |-> js]

\* Write a drained limiter state back.
Commit(q, s) ==
    /\ queued' = [queued EXCEPT ![q] = s.queued]
    /\ running' = [running EXCEPT ![q] = s.running]
    /\ reservoir' = [reservoir EXCEPT ![q] = s.reservoir]
    /\ nextRequest' = [nextRequest EXCEPT ![q] = s.nextRequest]
    /\ jobs' = s.jobs

\* ------------------------------------------------------------------- Init
\* setInterval(async () => {...}, 15000) of startProductWorker.
TickInterval == 15000

\* The products of the gallery.
Products == 1..WorkerProducts

\* The callers at startup: no rendering was requested, no product of the
\* gallery has its var_restrictions, startProductWorker has armed its
\* interval timer.
\*   rendering.pc: idle            generateRendering not invoked
\*                 detectFireplace awaiting the call made by detectFireplace
\*                 prepare         detectFireplace returned without a call
\*                 generate        awaiting the call of step 5
\*                 failed          "Could not download source image."
\*   detectJob / renderJob: the jobs of the two calls (0: not made).
InitCallers ==
    /\ rendering = [pc |-> "idle", detectJob |-> 0, renderJob |-> 0]
    /\ product_gallery = [p \in Products |-> [var_restrictions |-> "null"]]
    /\ ticks = <<>>
    /\ nextTick = TickInterval

Init ==
    /\ startup = "serving"
    /\ GEMINI_TIER \in Tiers
    /\ now = 0
    /\ stats = [totalRequests |-> 0, successfulRequests |-> 0, failedRequests |-> 0,
                retriedRequests |-> 0, totalQueueTime |-> 0]
    /\ jobs = <<>>
    /\ queued = [q \in Limiters |-> <<>>]
    /\ running = [q \in Limiters |-> 0]
    /\ reservoir = [q \in Limiters |-> Options(q).reservoir]
    /\ nextRequest = [q \in Limiters |-> 0]
    /\ lastReservoirRefresh = [q \in Limiters |-> 0]
    /\ lastStart = [q \in Limiters |-> -1]
    /\ lastFirstStart = [q \in Limiters |-> -1]
    /\ InitCallers

\* ---------------------------------------------------------------- startup
\* Values of the environment variable GEMINI_TIER at startup: "" when it is
\* unset or empty, the two profile names, and names that are no profile.
EnvNames == {"", "free", "paid", "premium", "FREE", "constructor"}

\* Property names every object literal inherits from Object.prototype.
PrototypeKeys == {"constructor", "toString", "valueOf", "hasOwnProperty"}

\* process.env.GEMINI_TIER || 'paid'
TierOf(env) == IF env = "" THEN "paid" ELSE env

\* What RATE_LIMITS[t] evaluates to: a profile for the object's own keys, an
\* inherited value (a function, with none of the limit properties) for the
\* keys of Object.prototype, undefined for any other name.
ConfigKind(t) ==
    CASE t \in Tiers         -> "profile"
      [] t \in PrototypeKeys -> "inherited"
      [] OTHER               -> "undefined"

\* Before the module is evaluated.
InitStartup ==
    /\ startup = "loading"
    /\ GEMINI_TIER \in EnvNames
    /\ now = 0
    /\ stats = [totalRequests |-> 0, successfulRequests |-> 0, failedRequests |-> 0,
                retriedRequests |-> 0, totalQueueTime |-> 0]
    /\ jobs = <<>>
    /\ queued = [q \in Limiters |-> <<>>]
    /\ running = [q \in Limiters |-> 0]
    /\ reservoir = [q \in Limiters |-> 0]
    /\ nextRequest = [q \in Limiters |-> 0]
    /\ lastReservoirRefresh = [q \in Limiters |-> 0]
    /\ lastStart = [q \in Limiters |-> -1]
    /\ lastFirstStart = [q \in Limiters |-> -1]
    /\ InitCallers

\* The module's top-level code runs (it is imported statically by server.js
\* and the workers).  With config undefined, reading config.maxConcurrent
\* throws and the import fails.  With a profile the limiters are built from
\* it.  With an inherited value every config.x is undefined: nothing throws,
\* the limiters are built without the profile's limits and the module is
\* evaluated to its end.
LoadModule ==
    LET t == TierOf(GEMINI_TIER)
    IN /\ startup = "loading"
       /\ GEMINI_TIER' = t
       /\ startup' = IF ConfigKind(t) = "undefined" THEN "failed" ELSE "serving"
       /\ reservoir' = IF ConfigKind(t) = "profile"
                       THEN [q \in Limiters |-> Options(q).reservoir]'
                       ELSE reservoir
       /\ UNCHANGED <<callers, now, stats, jobs, queued, running, nextRequest,
                      lastReservoirRefresh, lastStart, lastFirstStart>>

\* ---------------------------------------------------------------- actions
\* What the info object Bottleneck hands to a 'queued' handler contains.
QueuedInfo == {"args", "options", "reachedHWM", "blocked"}

\* The thresholds the 'queued' handlers compare with.
Threshold(q) == IF q = "limiter" THEN 10 ELSE 5

\* limiter.on('queued') / priorityLimiter.on('queued'): whether the handler
\* logs the queue depth.  It reads info.queued, which is undefined unless
\* info has that property, and undefined > n is false.
onQueued(q, depth) ==
    /\ "queued" \in QueuedInfo
    /\ depth > Threshold(q)

\* wrapGeminiCall whose job enters the front of the queue.
wrapGeminiCall_Front(priority) ==
    LET j  == nCalls + 1
        q  == activeLimiter(priority)
        js == Append(jobs, [NewJob EXCEPT !.priority = priority,
                                          !.startTime = now])
        s  == [LimiterState(q, js) EXCEPT !.queued = <<j>> \o queued[q]]
        d  == drainAll(q, s)
    IN /\ stats' = [stats EXCEPT !.totalRequests = @ + 1]
       /\ Commit(q, [d EXCEPT !.jobs[j].deep = Len(d.queued) > Threshold(q),
                              !.jobs[j].depthSignal = onQueued(q, Len(d.queued))])
       /\ UNCHANGED <<startup, GEMINI_TIER, now, lastReservoirRefresh, lastStart, lastFirstStart>>

\* wrapGeminiCall(fn, priority) up to the return of activeLimiter.schedule:
\* the call is counted, the job enters the back of the queue, the 'queued'
\* handler runs and the queue is drained.
wrapGeminiCall(priority) ==
    LET j  == nCalls + 1
        q  == activeLimiter(priority)
        js == Append(jobs, [NewJob EXCEPT !.priority = priority,
                                          !.startTime = now])
        s  == [LimiterState(q, js) EXCEPT !.queued = Append(queued[q], j)]
        d  == drainAll(q, s)
    IN /\ stats' = [stats EXCEPT !.totalRequests = @ + 1]
       /\ Commit(q, [d EXCEPT !.jobs[j].deep = Len(d.queued) > Threshold(q),
                              !.jobs[j].depthSignal = onQueued(q, Len(d.queued))])
       /\ UNCHANGED <<startup, GEMINI_TIER, now, lastReservoirRefresh, lastStart, lastFirstStart>>

\* A call of wrapGeminiCall by a caller that is not followed.
Call(priority) == wrapGeminiCall(priority) /\ UNCHANGED callers

\* doExecute whose closure counts the request, on every attempt.
doExecute_CountsRequest(j) ==
    LET q         == LimiterOf(j)
        queueTime == now - jobs[j].startTime
    IN /\ jobs[j].status \in {"RUNNING", "RETRYING"}
       /\ jobs[j].wake <= now
       /\ stats' = [stats EXCEPT !.totalQueueTime = @ + queueTime,
                                 !.totalRequests = @ + 1]
       /\ jobs' = [jobs EXCEPT ![j].status = "EXECUTING",
                               ![j].wake = 0,
                               ![j].attempts = @ + 1,
                               ![j].counted.queueTime = @ + 1]
       /\ lastStart' = [lastStart EXCEPT ![q] = now]
       /\ lastFirstStart' = IF jobs[j].attempts = 0
                            THEN [lastFirstStart EXCEPT ![q] = now]
                            ELSE lastFirstStart
       /\ UNCHANGED <<callers, startup, GEMINI_TIER, now, queued, running, reservoir,
                      nextRequest, lastReservoirRefresh>>

\* The job's timer fires (Job.doExecute): the scheduled closure runs up to
\* "await fn()": it adds the time since the call to totalQueueTime and
\* invokes fn.  The same closure runs again when a retry timer fires.
doExecute(j) ==
    LET q         == LimiterOf(j)
        queueTime == now - jobs[j].startTime
    IN /\ jobs[j].status \in {"RUNNING", "RETRYING"}
       /\ jobs[j].wake <= now
       /\ stats' = [stats EXCEPT !.totalQueueTime = @ + queueTime]
       /\ jobs' = [jobs EXCEPT ![j].status = "EXECUTING",
                               ![j].wake = 0,
                               ![j].attempts = @ + 1,
                               ![j].counted.queueTime = @ + 1]
       /\ lastStart' = [lastStart EXCEPT ![q] = now]
       /\ lastFirstStart' = IF jobs[j].attempts = 0
                            THEN [lastFirstStart EXCEPT ![q] = now]
                            ELSE lastFirstStart
       /\ UNCHANGED <<callers, startup, GEMINI_TIER, now, queued, running, reservoir,
                      nextRequest, lastReservoirRefresh>>

\* err.message && (err.message.includes('429') ||
\*                 err.message.includes('RESOURCE_EXHAUSTED'))
\* for the errors of the model; reading .message of null throws instead.
IsThrottling(err) == err = "RESOURCE_EXHAUSTED"

\* Closure whose catch block counts a throttling rejection as a failure.
Closure_ThrottledCountsFailed(o) ==
    CASE o = "ok"   -> [counter |-> "successfulRequests", rejects |-> FALSE, error |-> "none"]
      [] o = "null" -> [counter |-> "none", rejects |-> TRUE, error |-> "TypeError"]
      [] OTHER      -> [counter |-> "failedRequests", rejects |-> TRUE, error |-> o]

\* The closure after "await fn()" (try/catch of wrapGeminiCall): which counter
\* it increments and what the task ends with.  On null the catch block throws
\* a TypeError at err.message before any counter is touched.
Closure(o) ==
    CASE o = "ok"   -> [counter |-> "successfulRequests", rejects |-> FALSE, error |-> "none"]
      [] o = "null" -> [counter |-> "none", rejects |-> TRUE, error |-> "TypeError"]
      [] IsThrottling(o) -> [counter |-> "retriedRequests", rejects |-> TRUE, error |-> o]
      [] OTHER      -> [counter |-> "failedRequests", rejects |-> TRUE, error |-> o]

\* onFailed with the ceiling off by one (retryCount <= 3).
onFailed_OneMoreRetry(error, retryCount) ==
    IF IsThrottling(error) /\ retryCount <= 3
    THEN [retry |-> TRUE, delay |-> 2000 * (retryCount + 1)]
    ELSE [retry |-> FALSE, delay |-> 0]

\* onFailed with a base delay of 1000 ms.
onFailed_HalfDelay(error, retryCount) ==
    IF IsThrottling(error) /\ retryCount < 3
    THEN [retry |-> TRUE, delay |-> 1000 * (retryCount + 1)]
    ELSE [retry |-> FALSE, delay |-> 0]

\* limiter.on('failed') and priorityLimiter.on('failed'): the delay to retry
\* after, or no retry (null, or undefined for an error that is not throttling).
onFailed(error, retryCount) ==
    IF IsThrottling(error) /\ retryCount < 3
    THEN [retry |-> TRUE, delay |-> 2000 * (retryCount + 1)]
    ELSE [retry |-> FALSE, delay |-> 0]

Bump(st, counter) ==
    IF counter = "none" THEN st ELSE [st EXCEPT ![counter] = @ + 1]

BumpCounted(c, counter) ==
    CASE counter = "successfulRequests" -> [c EXCEPT !.successful = @ + 1]
      [] counter = "failedRequests"     -> [c EXCEPT !.failed = @ + 1]
      [] counter = "retriedRequests"    -> [c EXCEPT !.retried = @ + 1]
      [] OTHER                          -> c

\* Finish that drains the queue without freeing the slot.
Finish_NoRelease(j, js) ==
    LET q == LimiterOf(j)
        s == LimiterState(q, js)
    IN Commit(q, drainAll(q, s))

\* Finish that frees the slot without draining the queue.
Finish_NoDrain(j, js) ==
    LET q == LimiterOf(j)
        s == [LimiterState(q, js) EXCEPT !.running = @ - 1]
    IN Commit(q, s)

\* Bottleneck ends the job: doDone, _free (running - 1, _drainAll), then the
\* promise returned by schedule is resolved or rejected.
Finish(j, js) ==
    LET q == LimiterOf(j)
        s == [LimiterState(q, js) EXCEPT !.running = @ - 1]
    IN Commit(q, drainAll(q, s))

\* retry that gives the slot back and resubmits the job to the back of the
\* queue at once.
retry_Requeue(j, j1, delay) ==
    LET q  == activeLimiter(j1.priority)
        js == [jobs EXCEPT ![j] =
                 [j1 EXCEPT !.status = "QUEUED", !.retryCount = @ + 1, !.wake = 0]]
        s  == [queued |-> Append(queued[q], j), running |-> running[q] - 1,
               reservoir |-> reservoir[q], nextRequest |-> nextRequest[q], jobs |-> js]
    IN /\ queued' = [queued EXCEPT ![q] = s.queued]
       /\ running' = [running EXCEPT ![q] = s.running]
       /\ jobs' = s.jobs
       /\ UNCHANGED <<reservoir, nextRequest>>

\* Job._onFailure with a delay from the 'failed' handler: retryCount++ and
\* run(retryAfter), which arms a timer for the same job; the limiter's queue,
\* running count, reservoir and nextRequest are not touched.  j1 is the job's
\* record after the closure ran.
retry(j, j1, delay) ==
    /\ jobs' = [jobs EXCEPT ![j] =
           [j1 EXCEPT !.status = "RETRYING", !.retryCount = @ + 1,
                      !.wake = now + delay]]
    /\ UNCHANGED <<queued, running, reservoir, nextRequest>>

\* fn of job j settles with outcome o; the closure's continuation and
\* Bottleneck's handling of the task's result run to completion.
FnSettles(j, o) ==
    LET c  == Closure(o)
        r  == onFailed(c.error, jobs[j].retryCount)
        j1 == [jobs[j] EXCEPT !.lastErr = IF o = "ok" THEN "none" ELSE o,
                              !.counted = BumpCounted(@, c.counter)]
    IN /\ jobs[j].status = "EXECUTING"
       /\ stats' = Bump(stats, c.counter)
       /\ IF ~c.rejects
          THEN \* Job.doExecute: doDone, free, _resolve(passed)
               Finish(j, [jobs EXCEPT ![j] =
                   [j1 EXCEPT !.status = "DONE", !.promise = "resolved",
                              !.settles = @ + 1,
                              !.delivered = [what |-> "value", attempt |-> j1.attempts]]])
          ELSE IF r.retry
          THEN retry(j, j1, r.delay)
          ELSE \* Job._onFailure: doDone, free, _reject(error)
               Finish(j, [jobs EXCEPT ![j] =
                   [j1 EXCEPT !.status = "DONE", !.promise = "rejected",
                              !.settles = @ + 1,
                              !.delivered = [what |-> IF c.error = o THEN "error" ELSE c.error,
                                             attempt |-> j1.attempts]]])
       /\ UNCHANGED <<callers, startup, GEMINI_TIER, now, lastReservoirRefresh, lastStart,
                      lastFirstStart>>

\* Refresh that refills the reservoir without draining the queue.
Refresh_NoDrain(q) ==
    LET s == [LimiterState(q, jobs) EXCEPT !.reservoir = Options(q).reservoirRefreshAmount]
    IN /\ now >= lastReservoirRefresh[q] + Options(q).reservoirRefreshInterval
       /\ lastReservoirRefresh' = [lastReservoirRefresh EXCEPT ![q] = now]
       /\ Commit(q, s)
       /\ UNCHANGED <<callers, startup, GEMINI_TIER, now, stats, lastStart, lastFirstStart>>

\* The heartbeat of limiter q finds a refresh due: the reservoir is set to
\* reservoirRefreshAmount and the queue drained.
Refresh(q) ==
    LET s == [LimiterState(q, jobs) EXCEPT !.reservoir = Options(q).reservoirRefreshAmount]
    IN /\ now >= lastReservoirRefresh[q] + Options(q).reservoirRefreshInterval
       /\ lastReservoirRefresh' = [lastReservoirRefresh EXCEPT ![q] = now]
       /\ Commit(q, drainAll(q, s))
       /\ UNCHANGED <<callers, startup, GEMINI_TIER, now, stats, lastStart, lastFirstStart>>

\* resetStats that leaves totalQueueTime as it is.
resetStats_KeepsQueueTime ==
    /\ stats' = [totalRequests |-> 0, successfulRequests |-> 0, failedRequests |-> 0,
                 retriedRequests |-> 0, totalQueueTime |-> stats.totalQueueTime]
    /\ jobs' = [j \in Called |->
                  [jobs[j] EXCEPT !.calledBeforeReset = TRUE,
                                  !.settledBeforeReset = (jobs[j].status = "DONE")]]
    /\ UNCHANGED <<callers, startup, GEMINI_TIER, now, queued, running, reservoir, nextRequest,
                   lastReservoirRefresh, lastStart, lastFirstStart>>

\* resetStats(): the module's stats variable is bound to a fresh object with
\* every counter 0; the closures of the jobs in flight read the variable when
\* they increment.
resetStats ==
    /\ stats' = [totalRequests |-> 0, successfulRequests |-> 0, failedRequests |-> 0,
                 retriedRequests |-> 0, totalQueueTime |-> 0]
    /\ jobs' = [j \in Called |->
                  [jobs[j] EXCEPT !.calledBeforeReset = TRUE,
                                  !.settledBeforeReset = (jobs[j].status = "DONE")]]
    /\ UNCHANGED <<callers, startup, GEMINI_TIER, now, queued, running, reservoir, nextRequest,
                   lastReservoirRefresh, lastStart, lastFirstStart>>

\* Number.prototype.toFixed(0) of the quotient n / d (n >= 0, d > 0): the
\* nearest integer, halves up.
ToFixed0(n, d) == (2 * n + d) \div (2 * d)

\* getStats(): the counters and the derived figures.  averageQueueTime is
\* the integer toFixed(0) prints; successRate is given in tenths of a percent,
\* the digits toFixed(1) prints.
getStats ==
    [totalRequests      |-> stats.totalRequests,
     successfulRequests |-> stats.successfulRequests,
     failedRequests     |-> stats.failedRequests,
     retriedRequests    |-> stats.retriedRequests,
     totalQueueTime     |-> stats.totalQueueTime,
     averageQueueTime   |-> IF stats.totalRequests > 0
                            THEN ToFixed0(stats.totalQueueTime, stats.totalRequests)
                            ELSE 0,
     successRate        |-> IF stats.totalRequests > 0
                            THEN ToFixed0(stats.successfulRequests * 1000, stats.totalRequests)
                            ELSE 0]

\* ---------------------------------------------------------------- callers
\* generateRendering up to the first await on the provider: it calls
\* detectFireplace, which downloads the image and, when it has one, calls
\* wrapGeminiCall(fn) without a second argument, so that priority takes its
\* default, false.  Without an image detectFireplace returns false at once.
detectFireplace ==
    /\ rendering.pc = "idle"
    /\ \E imagePart \in BOOLEAN :
          IF imagePart
          THEN /\ wrapGeminiCall(FALSE)
               /\ rendering' = [rendering EXCEPT !.pc = "detectFireplace",
                                                 !.detectJob = nCalls + 1]
          ELSE /\ rendering' = [rendering EXCEPT !.pc = "prepare"]
               /\ UNCHANGED rateLimiter
    /\ UNCHANGED <<product_gallery, ticks, nextTick>>

\* generateRendering from the return of detectFireplace (which returns false
\* when its call rejected) to the await of step 5: it downloads the image
\* again, throws without it and calls wrapGeminiCall(fn, true) with it.
generateRendering ==
    /\ \/ rendering.pc = "prepare"
       \/ /\ rendering.pc = "detectFireplace"
          /\ jobs[rendering.detectJob].status = "DONE"
    /\ \E imagePart \in BOOLEAN :
          IF imagePart
          THEN /\ wrapGeminiCall(TRUE)
               /\ rendering' = [rendering EXCEPT !.pc = "generate",
                                                 !.renderJob = nCalls + 1]
          ELSE /\ rendering' = [rendering EXCEPT !.pc = "failed"]
               /\ UNCHANGED rateLimiter
    /\ UNCHANGED <<product_gallery, ticks, nextTick>>

\* The provider calls generateRendering has made.
RenderingJobs == {rendering.detectJob, rendering.renderJob} \ {0}

\* The products whose var_restrictions is null among the first n, by id.
RECURSIVE Unprocessed(_)
Unprocessed(n) ==
    IF n = 0 THEN <<>>
    ELSE IF product_gallery[n].var_restrictions = "null"
         THEN Append(Unprocessed(n - 1), n)
         ELSE Unprocessed(n - 1)

\* The interval timer of startProductWorker fires: an invocation of the
\* callback starts and sends its select.  Nothing looks at the invocations
\* that are still in progress.
\*   ticks[t].pc: select   awaiting the select
\*                loop     at the head of "for (const product of products)"
\*                await    awaiting wrapGeminiCall for products[product]
\*                done     returned
tick ==
    /\ now = nextTick
    /\ ticks' = Append(ticks, [pc |-> "select", products |-> <<>>,
                               product |-> 0, job |-> 0])
    /\ nextTick' = nextTick + TickInterval
    /\ UNCHANGED <<rendering, product_gallery, rateLimiter>>

\* The select of invocation t returns: an error, which ends the invocation,
\* or the products whose var_restrictions is null at that moment.
selectProducts(t) ==
    /\ ticks[t].pc = "select"
    /\ \E error \in BOOLEAN :
          LET products == Unprocessed(WorkerProducts)
          IN ticks' = [ticks EXCEPT ![t] =
                 IF error \/ products = <<>>
                 THEN [@ EXCEPT !.pc = "done"]
                 ELSE [@ EXCEPT !.pc = "loop", !.products = products, !.product = 1]]
    /\ UNCHANGED <<rendering, product_gallery, nextTick, rateLimiter>>

\* Invocation t after the body of the loop for its current product.
NextProduct(tk) ==
    IF tk.product < Len(tk.products)
    THEN [tk EXCEPT !.pc = "loop", !.product = @ + 1, !.job = 0]
    ELSE [tk EXCEPT !.pc = "done", !.job = 0]

\* The body of the loop of invocation t up to the await of wrapGeminiCall:
\* the media are downloaded and, when there is any, the product is
\* submitted to the normal queue.
analyzeProduct(t) ==
    /\ ticks[t].pc = "loop"
    /\ \E inputs \in BOOLEAN :
          IF inputs
          THEN /\ wrapGeminiCall(FALSE)
               /\ ticks' = [ticks EXCEPT ![t].pc = "await", ![t].job = nCalls + 1]
          ELSE /\ ticks' = [ticks EXCEPT ![t] = NextProduct(@)]
               /\ UNCHANGED rateLimiter
    /\ UNCHANGED <<rendering, product_gallery, nextTick>>

\* The call of invocation t has settled.  Resolved, the response is parsed
\* and the row updated with data.var_restrictions, which is null again when
\* the response has no such field; JSON.parse throwing and a rejected call
\* end in the catch, which writes nothing.  The loop goes on.
updateProduct(t) ==
    LET tk == ticks[t]
        p  == tk.products[tk.product]
    IN /\ tk.pc = "await"
       /\ jobs[tk.job].status = "DONE"
       /\ \E var_restrictions \in {"set", "null"} :
             product_gallery' =
                 IF jobs[tk.job].promise = "resolved" /\ var_restrictions = "set"
                 THEN [product_gallery EXCEPT ![p].var_restrictions = "set"]
                 ELSE product_gallery
       /\ ticks' = [ticks EXCEPT ![t] = NextProduct(@)]
       /\ UNCHANGED <<rendering, nextTick, rateLimiter>>

\* The invocations of the callback that wait for a call made for product p
\* which is still queued or executing.
InFlight(p) ==
    {t \in DOMAIN ticks :
        /\ ticks[t].pc = "await"
        /\ ticks[t].products[ticks[t].product] = p
        /\ jobs[ticks[t].job].status # "DONE"}

\* The deadlines of the armed timers: job timers and the next refreshes.
Deadlines ==
    {jobs[j].wake : j \in {k \in Called : jobs[k].status \in {"RUNNING", "RETRYING"}}}
    \cup {lastReservoirRefresh[q] + Options(q).reservoirRefreshInterval : q \in Limiters}

\* Time passes up to the next deadline, once every timer that is due has fired.
Advance(limit) ==
    LET next == CHOOSE d \in Deadlines : \A e \in Deadlines : d <= e
    IN /\ \A d \in Deadlines : d > now
       /\ next <= limit
       /\ now' = next
       /\ UNCHANGED <<callers, startup, GEMINI_TIER, stats, jobs, queued, running, reservoir,
                      nextRequest, lastReservoirRefresh, lastStart, lastFirstStart>>

\* Throttling rejections raised by fn so far.
RECURSIVE ThrottledUpTo(_)
ThrottledUpTo(n) == IF n = 0 THEN 0 ELSE jobs[n].counted.retried + ThrottledUpTo(n - 1)

Throttled == ThrottledUpTo(nCalls)

\* The program's steps: a call arrives, a job timer fires, a call of fn
\* settles, time passes.
Next ==
    \/ \E priority \in BOOLEAN : nCalls < MaxJobs /\ Call(priority)
    \/ \E j \in Called : doExecute(j)
    \/ \E j \in Called, o \in Outcomes : FnSettles(j, o)
    \/ \E q \in Limiters : Refresh(q)
    \/ Advance(MaxTime)

Spec == Init /\ [][Next]_vars

NextLoad ==
    \/ \E priority \in BOOLEAN : nCalls < LoadJobs /\ Call(priority)
    \/ \E j \in Called : doExecute(j)
    \/ \E j \in Called, o \in {"ok", "RESOURCE_EXHAUSTED"} :
          /\ IsThrottling(o) => Throttled < LoadThrottles
          /\ FnSettles(j, o)
    \/ Advance(LoadTime)

SpecLoad == Init /\ [][NextLoad]_vars

InitBurst == Init /\ GEMINI_TIER = "free"

NextBurst ==
    \/ nCalls < BurstJobs /\ now <= BurstWindow /\ Call(TRUE)
    \/ \E j \in Called : doExecute(j)
    \/ \E j \in Called : FnSettles(j, "ok")
    \/ \E q \in Limiters : Refresh(q)
    \/ Advance(BurstTime)

SpecBurst == InitBurst /\ [][NextBurst]_vars

NextRelease ==
    \/ \E priority \in BOOLEAN : nCalls < ReleaseJobs /\ Call(priority)
    \/ \E j \in Called : doExecute(j)
    \/ \E j \in Called, o \in {"ok", "ECONNRESET"} : FnSettles(j, o)
    \/ Advance(ReleaseTime)

SpecRelease == InitBurst /\ [][NextRelease]_vars

\* Calls made together at module load, all into the limiter of the first;
\* every invocation of fn settles before time passes.
LiveCall ==
    \E priority \in BOOLEAN :
        /\ nCalls < LiveJobs
        /\ now = 0
        /\ nCalls > 0 => priority = jobs[1].priority
        /\ Call(priority)

LiveTimer == \E j \in Called : doExecute(j)

LiveSettle ==
    \E j \in Called, o \in {"ok", "RESOURCE_EXHAUSTED"} :
        /\ IsThrottling(o) => Throttled < LiveThrottles
        /\ FnSettles(j, o)

LiveRefresh == \E q \in Limiters : Refresh(q)

LiveAdvance ==
    /\ \A j \in Called : jobs[j].status # "EXECUTING"
    /\ Advance(LiveTime)

NextLive == LiveCall \/ LiveTimer \/ LiveSettle \/ LiveRefresh \/ LiveAdvance

\* Timers fire, fn settles, the heartbeat runs and time passes.
SpecLive ==
    /\ Init
    /\ [][NextLive]_vars
    /\ WF_vars(LiveTimer)
    /\ WF_vars(LiveSettle)
    /\ WF_vars(LiveRefresh)
    /\ WF_vars(LiveAdvance)

NextReset ==
    \/ \E priority \in BOOLEAN : nCalls < ResetJobs /\ Call(priority)
    \/ \E j \in Called : doExecute(j)
    \/ \E j \in Called, o \in Outcomes : FnSettles(j, o)
    \/ resetStats
    \/ Advance(ResetTime)

SpecReset == Init /\ [][NextReset]_vars

NextResetLoad ==
    \/ \E priority \in BOOLEAN : nCalls < ResetLoadJobs /\ Call(priority)
    \/ \E j \in Called : doExecute(j)
    \/ \E j \in Called : FnSettles(j, "ok")
    \/ resetStats
    \/ Advance(ResetLoadTime)

SpecResetLoad == Init /\ [][NextResetLoad]_vars

\* Invocations of fn so far: first starts and re-executions, both limiters.
RECURSIVE StartsUpTo(_)
StartsUpTo(n) == IF n = 0 THEN 0 ELSE jobs[n].attempts + StartsUpTo(n - 1)

Starts == StartsUpTo(nCalls)

NextQuota ==
    \/ \E priority \in BOOLEAN :
          nCalls < QuotaJobs /\ now = 0 /\ Call(priority)
    \/ \E j \in Called : doExecute(j)
    \/ \E j \in Called, o \in {"ok", "RESOURCE_EXHAUSTED"} : FnSettles(j, o)
    \/ (\A j \in Called : jobs[j].status # "EXECUTING") /\ Advance(QuotaTime)

SpecQuota == InitBurst /\ [][NextQuota]_vars

\* Startup followed by the steps of Spec; calls are followed under the two
\* profiles only.
NextStartup ==
    \/ LoadModule
    \/ startup = "serving" /\ GEMINI_TIER \in Tiers /\ Next

SpecStartup == InitStartup /\ [][NextStartup]_vars

\* Time passes up to the next deadline, the interval timer of
\* startProductWorker among them, once every timer that is due has fired.
AdvanceWorker(limit) ==
    LET all  == Deadlines \cup {nextTick}
        next == CHOOSE d \in all : \A e \in all : d <= e
    IN /\ \A d \in all : d > now
       /\ next <= limit
       /\ now' = next
       /\ UNCHANGED <<callers, startup, GEMINI_TIER, stats, jobs, queued, running,
                      reservoir, nextRequest, lastReservoirRefresh, lastStart,
                      lastFirstStart>>

\* One rendering request among calls of the background workers.
NextRender ==
    \/ nCalls - Cardinality(RenderingJobs) < RenderBackground /\ Call(FALSE)
    \/ detectFireplace
    \/ generateRendering
    \/ \E j \in Called : doExecute(j)
    \/ \E j \in Called, o \in {"ok", "ECONNRESET"} : FnSettles(j, o)
    \/ Advance(RenderTime)

SpecRender == Init /\ [][NextRender]_vars

\* The product worker alone.
NextWorker ==
    \/ tick
    \/ \E t \in DOMAIN ticks : selectProducts(t)
    \/ \E t \in DOMAIN ticks : analyzeProduct(t)
    \/ \E t \in DOMAIN ticks : updateProduct(t)
    \/ \E j \in Called : doExecute(j)
    \/ \E j \in Called, o \in {"ok", "ECONNRESET"} : FnSettles(j, o)
    \/ AdvanceWorker(WorkerTime)

SpecWorker == Init /\ [][NextWorker]_vars

\* ------------------------------------------------------------------ claims
\* Every call made so far has settled to its caller.
AllSettled == nCalls > 0 /\ \A j \in Called : jobs[j].promise # "pending"

\* C1: once every submitted job has settled (no resetStats is part of Spec),
\* totalRequests = successfulRequests + failedRequests.  Stated for the mix
\* the claim names: jobs whose fn resolved or rejected with an Error,
\* throttling or not.
C1_TotalIsSuccessPlusFailed ==
    (AllSettled /\ \A j \in Called : jobs[j].lastErr # "null")
        => stats.totalRequests = stats.successfulRequests + stats.failedRequests

\* C2: a throttled job is retried while its retry counter is below 3 and is
\* propagated when the 4th attempt fails: fn runs at most 4 times per call, a
\* job waits for a retry only with a counter raised to at most 3, and a job
\* ends on a throttling error only with its 4th attempt.
C2_RetryCeiling ==
    \A j \in Called :
        /\ jobs[j].attempts <= 4
        /\ jobs[j].retryCount <= 3
        /\ jobs[j].status = "RETRYING"
               => IsThrottling(jobs[j].lastErr) /\ jobs[j].attempts = jobs[j].retryCount
        /\ (jobs[j].status = "DONE" /\ IsThrottling(jobs[j].lastErr))
               => /\ jobs[j].attempts = 4
                  /\ jobs[j].retryCount = 3
                  /\ jobs[j].promise = "rejected"

\* A job was throttled on all of its 4 attempts and its error was propagated.
C2_Witness ==
    \E j \in Called :
        /\ jobs[j].promise = "rejected"
        /\ IsThrottling(jobs[j].lastErr)
        /\ jobs[j].attempts = 4

\* C3: every terminal failure of a call is counted in failedRequests exactly
\* once and rejected to the caller; stated for calls whose fn rejected with an
\* Error on its last attempt.
C3_TerminalFailureCountedOnce ==
    \A j \in Called :
        (jobs[j].status = "DONE" /\ jobs[j].lastErr \in {"RESOURCE_EXHAUSTED", "ECONNRESET"})
            => jobs[j].promise = "rejected" /\ jobs[j].counted.failed = 1

\* C4: retriedRequests is incremented exactly once per resubmission of a
\* job, so each job has added to it as often as Bottleneck retried the job.
C4_RetriedCountsResubmissions ==
    \A j \in Called : jobs[j].counted.retried = jobs[j].retryCount

\* C9: a job whose first attempt fails with a failure that is not throttling
\* is never retried: one invocation of fn, failedRequests + 1, retriedRequests
\* and successfulRequests unchanged, promise rejected.
C9_NonThrottlingFirstAttempt ==
    \A j \in Called :
        (jobs[j].attempts = 1 /\ jobs[j].lastErr \in {"ECONNRESET", "null"})
            => /\ jobs[j].status = "DONE"
               /\ jobs[j].retryCount = 0
               /\ jobs[j].promise = "rejected"
               /\ jobs[j].counted.failed = 1
               /\ jobs[j].counted.retried = 0
               /\ jobs[j].counted.successful = 0

\* C10: the promise of a call settles exactly once, with the value of the
\* successful attempt or with the very error fn raised on the job's last
\* attempt, and only when the job has ended.
C10_PromiseGetsFinalResult ==
    \A j \in Called :
        /\ jobs[j].settles = (IF jobs[j].status = "DONE" THEN 1 ELSE 0)
        /\ jobs[j].promise = "pending" <=> jobs[j].status # "DONE"
        /\ jobs[j].promise = "resolved"
               => jobs[j].delivered = [what |-> "value", attempt |-> jobs[j].attempts]
        /\ jobs[j].promise = "rejected"
               => jobs[j].delivered = [what |-> "error", attempt |-> jobs[j].attempts]

\* The jobs of limiter q that hold one of its slots: registered and waiting
\* for their start, executing fn, or held between attempts.
Admitted(q) ==
    {j \in Called : /\ LimiterOf(j) = q
                    /\ jobs[j].status \in {"RUNNING", "EXECUTING", "RETRYING"}}

\* C5: in each limiter the jobs admitted and not yet terminally settled never
\* outnumber the limiter's maxConcurrent.
C5_ConcurrencyCeiling ==
    \A q \in Limiters : Cardinality(Admitted(q)) <= Options(q).maxConcurrent

\* A limiter is full, one of its slots is held by a job waiting out a backoff,
\* and a job waits in its queue although the reservoir has tokens.
C5_Witness ==
    \E q \in Limiters :
        /\ Cardinality(Admitted(q)) = Options(q).maxConcurrent
        /\ \E j \in Admitted(q) : jobs[j].status = "RETRYING"
        /\ queued[q] # <<>>
        /\ reservoir[q] > 0

AdmittedInStep(q) ==
    {j \in DOMAIN jobs' : /\ jobs'[j].status = "RUNNING"
                          /\ j \in Called => jobs[j].status = "QUEUED"
                          /\ activeLimiter(jobs'[j].priority) = q}

C7_ReservoirTokens ==
    /\ \A q \in Limiters : reservoir[q] \in 0..Options(q).reservoir
    /\ [][\A q \in Limiters :
            LET level == IF lastReservoirRefresh'[q] # lastReservoirRefresh[q]
                         THEN Options(q).reservoirRefreshAmount
                         ELSE reservoir[q]
            IN /\ reservoir'[q] \in 0..Options(q).reservoir
               /\ Cardinality(AdmittedInStep(q)) <= level
               /\ reservoir'[q] = level - Cardinality(AdmittedInStep(q))]_vars

\* The reservoir is empty and a job waits in the queue although a slot is
\* free.
C7_Witness ==
    \E q \in Limiters :
        /\ reservoir[q] = 0
        /\ queued[q] # <<>>
        /\ running[q] < Options(q).maxConcurrent

C11_SuccessCountedOnce ==
    \A j \in Called :
        /\ jobs[j].promise = "resolved"
               => jobs[j].counted.successful = 1 /\ jobs[j].counted.failed = 0
        /\ jobs[j].promise # "resolved" => jobs[j].counted.successful = 0

\* A job succeeded on its 4th attempt, after three retries.
C11_Witness ==
    \E j \in Called :
        /\ jobs[j].promise = "resolved"
        /\ jobs[j].attempts = 4
        /\ jobs[j].retryCount = 3
        /\ stats.successfulRequests = 1

\* The jobs of limiter q that are registered or executing fn, leaving out
\* those held between attempts.
Active(q) ==
    {j \in Called : /\ LimiterOf(j) = q
                    /\ jobs[j].status \in {"RUNNING", "EXECUTING"}}

C13_QueueTimeAddedOnce ==
    \A j \in Called :
        /\ jobs[j].counted.queueTime = (IF jobs[j].attempts >= 1 THEN 1 ELSE 0)
        /\ (nCalls = 1 /\ jobs[j].attempts >= 1)
               => stats.totalQueueTime = lastFirstStart[LimiterOf(j)] - jobs[j].startTime

\* C14: within one limiter jobs are admitted in the order of their calls:
\* of two jobs of the same limiter the later called one is not registered
\* while the earlier waits in the queue, is not started before the earlier
\* is started, and stands behind the earlier in the queue.
C14_AdmittedInCallOrder ==
    \A j, k \in Called :
        (j < k /\ LimiterOf(j) = LimiterOf(k))
            => /\ jobs[k].status # "QUEUED" => jobs[j].status # "QUEUED"
               /\ jobs[k].attempts >= 1 => jobs[j].attempts >= 1
               /\ \A a, b \in 1..Len(queued[LimiterOf(j)]) :
                      (queued[LimiterOf(j)][a] = j /\ queued[LimiterOf(j)][b] = k)
                          => a < b

\* Of three jobs called at the same instant into one limiter the first has
\* ended, the second found every slot taken when it was called, was taken
\* from the queue later and has been started, and the third still waits.
C14_Witness ==
    \E j, k, l \in Called :
        /\ j < k /\ k < l
        /\ LimiterOf(j) = LimiterOf(k) /\ LimiterOf(k) = LimiterOf(l)
        /\ jobs[j].startTime = jobs[l].startTime
        /\ jobs[j].status = "DONE"
        /\ k > Options(LimiterOf(k)).maxConcurrent
        /\ jobs[k].attempts >= 1
        /\ jobs[l].status = "QUEUED"
        /\ Len(queued[LimiterOf(l)]) >= 2

\* C15: when a job is throttled with retry counter r in {0, 1, 2}, its retry
\* timer is armed 2000 * (r + 1) ms ahead (2000, 4000, 6000 ms after attempts
\* 1, 2, 3) in either limiter, and the next attempt starts when that timer
\* is due.
C15_BackoffDelay ==
    [][\A j \in Called :
          /\ (jobs[j].status = "EXECUTING" /\ jobs'[j].status = "RETRYING")
                 => /\ jobs[j].retryCount \in 0..2
                    /\ jobs[j].attempts = jobs[j].retryCount + 1
                    /\ jobs'[j].wake - now = 2000 * (jobs[j].retryCount + 1)
                    /\ jobs'[j].wake - now \in {2000, 4000, 6000}
          /\ (jobs[j].status = "RETRYING" /\ jobs'[j].status = "EXECUTING")
                 => now = jobs[j].wake]_vars

\* A priority job throttled on its 3rd attempt waits for a timer armed
\* 6000 ms ahead, 12000 ms after it was first started.
C15_Witness ==
    \E j \in Called :
        /\ jobs[j].priority
        /\ jobs[j].status = "RETRYING"
        /\ jobs[j].retryCount = 3
        /\ jobs[j].wake = now + 6000
        /\ jobs[j].wake = jobs[j].startTime + 12000

\* The state of limiter q: waiting line, in-flight count, reservoir level,
\* last-admission time and refill time.
QueueState(q) ==
    <<queued[q], running[q], reservoir[q], nextRequest[q], lastReservoirRefresh[q]>>

C17_RefillIsIncreaseAndCap ==
    /\ [](\A q \in Limiters :
             /\ Options(q).reservoirRefreshInterval = 60000
             /\ now <= lastReservoirRefresh[q] + Options(q).reservoirRefreshInterval)
    /\ [][\A q \in Limiters :
            lastReservoirRefresh'[q] # lastReservoirRefresh[q]
                => /\ lastReservoirRefresh'[q]
                          = lastReservoirRefresh[q] + Options(q).reservoirRefreshInterval
                   /\ now = lastReservoirRefresh'[q]
                   /\ reservoir'[q] + Cardinality(AdmittedInStep(q))
                          = Min(reservoir[q] + Options(q).reservoirRefreshAmount,
                                Options(q).reservoir)]_vars

\* Both limiters were refilled at 60000 ms: the normal one without ever
\* having had a job, the priority one from an empty reservoir, with the job
\* that waited for a token admitted by the refill.
C17_Witness ==
    /\ \A q \in Limiters : lastReservoirRefresh[q] = 60000
    /\ \A j \in Called : jobs[j].priority
    /\ reservoir["limiter"] = Options("limiter").reservoir
    /\ reservoir["priorityLimiter"] = Options("priorityLimiter").reservoir - 1
    /\ \E j \in Called : /\ j > Options("priorityLimiter").reservoir
                         /\ jobs[j].status = "RUNNING"
                         /\ jobs[j].startTime = 0

\* C18: when an admitted job ends, with success or with a propagated
\* failure, its slot is released in that step; if a job waits in the queue
\* and the reservoir has a token, the job at the front of the queue is
\* registered in the same step and takes the slot and a token, otherwise the
\* in-flight count drops by one.
C18_SlotReleasedOnCompletion ==
    [][\A j \in Called :
          (jobs[j].status = "EXECUTING" /\ jobs'[j].status = "DONE")
              => LET q == LimiterOf(j)
                 IN /\ now' = now
                    /\ jobs'[j].promise \in {"resolved", "rejected"}
                    /\ running'[q] = Cardinality(Admitted(q)')
                    /\ IF queued[q] # <<>> /\ reservoir[q] >= 1
                       THEN /\ jobs'[Head(queued[q])].status = "RUNNING"
                            /\ queued'[q] = Tail(queued[q])
                            /\ running'[q] = running[q]
                            /\ reservoir'[q] = reservoir[q] - 1
                       ELSE /\ queued'[q] = queued[q]
                            /\ running'[q] = running[q] - 1
                            /\ reservoir'[q] = reservoir[q]]_vars

\* A job was rejected to its caller with an error that is not throttling, and
\* the job that waited behind a full limiter has taken its slot: the limiter
\* is full again and the queue is empty.
C18_Witness ==
    \E j, k \in Called :
        /\ LimiterOf(j) = LimiterOf(k)
        /\ jobs[j].promise = "rejected"
        /\ jobs[j].lastErr = "ECONNRESET"
        /\ k > Options(LimiterOf(k)).maxConcurrent
        /\ jobs[k].startTime = jobs[j].startTime
        /\ jobs[k].status = "RUNNING"
        /\ running[LimiterOf(k)] = Options(LimiterOf(k)).maxConcurrent
        /\ queued[LimiterOf(k)] = <<>>
        /\ \A l \in Called \ {j} : jobs[l].status # "DONE"

\* C19: every job submitted to a limiter is eventually started and its
\* promise eventually settles, given that fn terminates and the timers keep
\* firing: from some point on every call made has been started and has
\* settled (calls are made at module load only).
C19_EveryJobSettles ==
    <>[](\A j \in Called : jobs[j].attempts >= 1 /\ jobs[j].promise # "pending")

\* C19, the example: ten normal calls made together under the paid tier
\* whose fn resolves have all succeeded, successfulRequests being 10.
C19_Witness ==
    /\ GEMINI_TIER = "paid"
    /\ nCalls = 10
    /\ \A j \in Called : ~jobs[j].priority /\ jobs[j].promise = "resolved"
                                            /\ jobs[j].attempts = 1
    /\ stats.successfulRequests = 10

\* C20: totalRequests is incremented exactly once per call, in the step of
\* the call itself, whether the job is registered at once or left in the
\* queue; no other step changes it, a retry of the job in particular.
C20_TotalCountsCalls ==
    /\ [](stats.totalRequests = nCalls)
    /\ [][/\ Len(jobs') - Len(jobs) \in {0, 1}
          /\ stats'.totalRequests = stats.totalRequests + (Len(jobs') - Len(jobs))
          /\ \A j \in Called :
                 jobs'[j].attempts # jobs[j].attempts
                     => stats'.totalRequests = stats.totalRequests]_vars

\* Three calls are counted: one whose job runs its second attempt and one
\* whose job has not left the queue.
C20_Witness ==
    /\ stats.totalRequests = 3
    /\ \E j \in Called : jobs[j].status = "EXECUTING" /\ jobs[j].attempts = 2
    /\ \E j \in Called : jobs[j].status = "QUEUED"

\* C21: when resetStats is called while jobs are queued or executing, once
\* they have settled successfulRequests + failedRequests is the number of jobs
\* that ended after the latest reset.  Stated for jobs whose fn resolved or
\* rejected with an Error.
C21_TerminalCountsLandAfterReset ==
    (/\ AllSettled
     /\ \A j \in Called : jobs[j].lastErr # "null"
     /\ \E j \in Called : jobs[j].calledBeforeReset /\ ~jobs[j].settledBeforeReset)
        => stats.successfulRequests + stats.failedRequests
               = Cardinality({j \in Called : ~jobs[j].settledBeforeReset})

\* C22: a tier name other than "free" or "paid" makes startup fail, so the
\* module never serves with anything but the profile that was named, or the
\* paid profile when no name is set, and no call is made before that profile
\* is in place.
C22_UnknownTierFailsStartup ==
    /\ [](startup = "serving" => GEMINI_TIER \in Tiers)
    /\ [](nCalls > 0 => startup = "serving")
    /\ [][(startup = "loading" /\ startup' # "loading")
             => /\ GEMINI_TIER = "" => startup' = "serving" /\ GEMINI_TIER' = "paid"
                /\ GEMINI_TIER \in Tiers
                       => startup' = "serving" /\ GEMINI_TIER' = GEMINI_TIER
                /\ GEMINI_TIER \notin Tiers \cup {""} => startup' = "failed"]_vars

\* C23: the priority limiter is built with maxConcurrent = min(tier's + 2, 10),
\* minTime = max(tier's - 200, 500) and reservoir = refresh amount =
\* floor(tier's reservoir * 0.7): 7, 800 ms and 42 under the paid tier (4,
\* 3800 ms and 10 under the free tier), the reservoir being smaller than the
\* normal limiter's; the limiter's state stays within these parameters.
C23_PriorityParameters ==
    LET p == Options("priorityLimiter")
        n == Options("limiter")
    IN /\ GEMINI_TIER = "paid"
              => p = [maxConcurrent |-> 7, minTime |-> 800, reservoir |-> 42,
                      reservoirRefreshAmount |-> 42, reservoirRefreshInterval |-> 60000]
       /\ GEMINI_TIER = "free"
              => p = [maxConcurrent |-> 4, minTime |-> 3800, reservoir |-> 10,
                      reservoirRefreshAmount |-> 10, reservoirRefreshInterval |-> 60000]
       /\ p.reservoir < n.reservoir
       /\ 10 * p.reservoir <= 7 * n.reservoir /\ 7 * n.reservoir < 10 * (p.reservoir + 1)
       /\ reservoir["priorityLimiter"] \in 0..p.reservoir
       /\ running["priorityLimiter"] <= p.maxConcurrent

\* Under the paid tier a priority job has been registered at module load: 41
\* of the 42 tokens are left and the next start is due 800 ms later.
C23_Witness ==
    /\ GEMINI_TIER = "paid"
    /\ running["priorityLimiter"] = 1
    /\ reservoir["priorityLimiter"] = 41
    /\ nextRequest["priorityLimiter"] = 800

\* C24: a queue-depth signal is emitted for a call exactly when the call
\* leaves more jobs waiting in its queue than the threshold (10 for the
\* normal limiter, 5 for the priority limiter).
C24_DepthSignal ==
    \A j \in Called :
        jobs[j].depthSignal <=> jobs[j].deep

\* C25: getStats right after resetStats returns 0 for the five counters and
\* for averageQueueTime and successRate, whatever the counters were before.
C25_ResetThenGetStats ==
    [][resetStats
         => getStats' = [totalRequests |-> 0, successfulRequests |-> 0,
                         failedRequests |-> 0, retriedRequests |-> 0,
                         totalQueueTime |-> 0, averageQueueTime |-> 0,
                         successRate |-> 0]]_vars

\* The counters are 0 after a resetStats that came when a call had been
\* counted, retried (adding to retriedRequests and totalQueueTime) and had
\* succeeded.
C25_Witness ==
    /\ stats = [totalRequests |-> 0, successfulRequests |-> 0, failedRequests |-> 0,
                retriedRequests |-> 0, totalQueueTime |-> 0]
    /\ getStats.averageQueueTime = 0 /\ getStats.successRate = 0
    /\ \E j \in Called :
           /\ jobs[j].settledBeforeReset
           /\ jobs[j].counted.successful = 1
           /\ jobs[j].counted.retried >= 1
           /\ now > jobs[j].startTime

\* C26: in every reachable state, those after a resetStats with jobs in
\* flight included, successfulRequests + failedRequests is at most
\* totalRequests, and the successRate of getStats is at most 100 (1000
\* tenths of a percent).
C26_OutcomesWithinTotal ==
    /\ stats.successfulRequests + stats.failedRequests <= stats.totalRequests
    /\ getStats.successRate <= 1000

\* C27: within one refill interval the provider calls started through the
\* two limiters together, re-executions after a retry included, do not
\* exceed the tier's reservoir (15 under the free tier).  Stated for the first
\* interval, before any refill.
C27_StartsWithinTierQuota ==
    (\A q \in Limiters : lastReservoirRefresh[q] = 0 /\ now < Options(q).reservoirRefreshInterval)
        => Starts <= config.reservoir

\* C28: whatever value fn rejects with on a job's last attempt, an Error, a
\* value without a message property, null or undefined, the call rejects with
\* that same value and the failure is counted exactly once in
\* failedRequests.  Stated for the values that are not throttling errors.
C28_AnyRejectionPropagatedAndCounted ==
    \A j \in Called :
        (jobs[j].status = "DONE" /\ jobs[j].lastErr \in {"ECONNRESET", "noMessage", "null"})
            => /\ jobs[j].promise = "rejected"
               /\ jobs[j].delivered.what = "error"
               /\ jobs[j].counted.failed = 1

\* C29: every provider call a generateRendering request makes goes through
\* the priority queue, and a call of the request that has not started yet
\* shares its limiter with no background job that is waiting or executing.
C29_RenderingNeverBehindBackground ==
    \A j \in RenderingJobs :
        /\ jobs[j].priority
        /\ jobs[j].attempts = 0 =>
              \A k \in Called \ RenderingJobs :
                  jobs[k].status = "DONE" \/ LimiterOf(k) # LimiterOf(j)

\* C30: the product worker never has two calls for the same product queued
\* or executing at the same time, and the jobs waiting in the normal queue
\* are no more than the products whose var_restrictions is null.
C30_OneJobPerProduct ==
    /\ \A p \in Products : Cardinality(InFlight(p)) <= 1
    /\ Len(queued["limiter"]) <= Len(Unprocessed(WorkerProducts))

====
